---- MODULE Spec2Model ----
(***************************************************************************)
(* Simulated-user behaviour of the Conduit load tests.                     *)
(*                                                                         *)
(*   src/load-testing/locust/locustfile.py   AnonymousReaderBehavior,      *)
(*                                           AuthenticatedReaderBehavior,  *)
(*                                           ContentCreatorBehavior and    *)
(*                                           the three HttpUser classes    *)
(*   src/user_flow/locustfile.py             ConduitUser                   *)
(*                                                                         *)
(* One virtual user is a state machine Starting -> Running -> Stopped.     *)
(* Every task is two steps: the task is scheduled and either returns       *)
(* early (precondition miss) or issues its request; then the response      *)
(* arrives (any status, any body) and the body of the with-block runs.     *)
(* The target API is the environment: it may answer any request with any   *)
(* status of Statuses and any body of Bodies.                              *)
(***************************************************************************)
EXTENDS Integers, Sequences, FiniteSets, TLC

(***************************************************************************)
(* Bounds of the model.                                                    *)
(***************************************************************************)
\* longest article list a list/feed response carries
MaxItems == 2
\* the largest number of users a run launches
MaxLaunch == 20

(***************************************************************************)
(* Python values.  An attribute that was never assigned is Unset (hasattr  *)
(* is False); None is Python's None.  Str is what an f-string makes of a   *)
(* value: f"{None}" is the text "None".                                    *)
(***************************************************************************)
Unset == "<unset>"
None == "<None>"
Str(v) == IF v = None THEN "None" ELSE v
\* `not v` for the values a session field can hold
Falsy(v) == v = None
hasattr(v) == v # Unset
\* getattr(obj, name, default)
getattr(v, default) == IF hasattr(v) THEN v ELSE default

(***************************************************************************)
(* The environment: what the target API can answer.                        *)
(***************************************************************************)
\* 0 is the status locust gives a request that failed in transport
Statuses == {0, 200, 201, 404, 500}
Tokens == {"abc123", "def456"}
Slugs == {"xyz", "abc"}
\* an article object without a 'slug' key
NoSlug == "<noslug>"
Items == Slugs \cup {NoSlug}
ArticleLists == UNION {[1..n -> Items] : n \in 0..MaxItems}
\* garbage: response.json() raises;  object: {} ;  user: {"user":{"token":t}}
\* articles: {"articles":[...]} ;  article: {"article":{"slug":s}}
Bodies ==
    {[kind |-> "garbage", val |-> <<>>], [kind |-> "object", val |-> <<>>]}
    \cup {[kind |-> "user", val |-> <<t>>] : t \in Tokens}
    \cup {[kind |-> "articles", val |-> l] : l \in ArticleLists}
    \cup {[kind |-> "article", val |-> <<s>>] : s \in Slugs}
BodyKinds == {"garbage", "object", "user", "articles", "article"}
\* one answer of each class: transport failure, rejection, not found, an
\* accepted status with a body that does not parse, a credential, a list of
\* one article, a created article
FewAnswers ==
    {<<0, [kind |-> "garbage", val |-> <<>>]>>,
     <<500, [kind |-> "object", val |-> <<>>]>>,
     <<404, [kind |-> "object", val |-> <<>>]>>,
     <<200, [kind |-> "garbage", val |-> <<>>]>>,
     <<200, [kind |-> "user", val |-> <<"abc123">>]>>,
     <<200, [kind |-> "articles", val |-> <<"abc">>]>>,
     <<201, [kind |-> "article", val |-> <<"xyz">>]>>}

\* response.json() succeeds
JsonOk(b) == b.kind # "garbage"
\* data.get('articles', [])
GetArticles(b) == IF b.kind = "articles" THEN b.val ELSE <<>>
\* article.get('slug')
GetSlug(item) == IF item = NoSlug THEN None ELSE item
\* data['user']['token'] does not raise
HasUserToken(b) == b.kind = "user"
UserToken(b) == b.val[1]
\* data['article']['slug'] does not raise
HasArticleSlug(b) == b.kind = "article"
ArticleSlug(b) == b.val[1]

(***************************************************************************)
(* The user classes and their task sets.                                   *)
(***************************************************************************)
Archetypes ==
    {"AnonymousUser", "AuthenticatedUser", "ContentCreator", "ConduitUser",
     "SimpleLoadTest"}
Fallback == "sample-article"
\* f"reader_{random.randint(1000, 9999)}", the two ends of the range
ReaderNames == {"reader_1000", "reader_9999"}
\* f"creator_{random.randint(1000, 9999)}"
CreatorNames == {"creator_1000", "creator_9999"}

\* @task(weight) of a TaskSet: locust puts a task weight times in the pool
\* it draws from with random.choice
AnonymousTasks ==
    [view_tags |-> 3, browse_articles |-> 6, read_article |-> 2]
AuthenticatedTasks ==
    [view_feed |-> 5, read_article |-> 4, browse_all_articles |-> 2, view_profile |-> 1]
ConduitTasks == [list_articles |-> 1]
SimpleTasks ==
    [get_tags |-> 3, get_articles |-> 5, get_article_detail |-> 2, register_user |-> 1]
\* the slugs get_article_detail chooses from; f"article-{random.randint(1, 10)}"
\* at the two ends of its range
SimpleSlugs ==
    {"how-to-train-your-dragon", "test-article", "sample-post", "article-1",
     "article-10"}
\* the creators weighted as the readers are and the readers as the creators
UserWeights_creators_first ==
    [AnonymousUser |-> 3, AuthenticatedUser |-> 2, ContentCreator |-> 5]

\* weight = 3 / weight = 5 / weight = 2 of the three HttpUser classes
UserWeights ==
    [AnonymousUser |-> 3, AuthenticatedUser |-> 5, ContentCreator |-> 2]
WeightSum ==
    UserWeights.AnonymousUser + UserWeights.AuthenticatedUser
    + UserWeights.ContentCreator
\* the comment step declared before the create step
CreatorTasks_comment_first ==
    <<"browse_feed", "add_comment", "create_article", "read_own_article">>

\* SequentialTaskSet: the tasks in declaration order
CreatorTasks == <<"browse_feed", "create_article", "read_own_article", "add_comment">>

\* a rejection, a credential, a list of one article, a created article
MinAnswers ==
    {<<500, [kind |-> "garbage", val |-> <<>>]>>,
     <<200, [kind |-> "user", val |-> <<"abc123">>]>>,
     <<200, [kind |-> "articles", val |-> <<"abc">>]>>,
     <<201, [kind |-> "article", val |-> <<"xyz">>]>>}

VARIABLES
    api,            \* which answers the target API gives in this run
    users,          \* the virtual users that were spawned
    enteredCheck,   \* the installed locust client rejects success() outside a with-block
    stopSignal,     \* the runner asked the users to stop
    stopAt,         \* user -> where it was when the stop signal was raised
    arch,           \* user -> its HttpUser class
    state,          \* user -> Starting | Running | Stopped | Crashed
    pc,             \* user -> where its greenlet is
    cur,            \* user -> the task (or setup request) being executed
    seqIdx,         \* user -> SequentialTaskSet index of the next task
    login_username, \* user -> local `username` of login()
    token,          \* user -> self.token
    username,       \* user -> self.username
    article_slug,   \* user -> self.user.article_slug / self.article_slug
    created_slug,   \* user -> self.created_slug
    headers,        \* user -> Authorization of self.client.headers (ConduitUser)
    last,           \* user -> the last step execution and what was recorded for it
    setupLog,       \* user -> the requests of its setup, answered
    iterLog,        \* user -> the steps of the current pass of the sequential workflow
    total,          \* the number of users the run launches
    assigned,       \* user class -> how many of the users are of that class
    mix             \* plan | rest | done: how far the assignment has got

\* (status, body) of a response
Answers ==
    CASE api = "any" -> Statuses \X Bodies
      [] api = "few" -> FewAnswers
      [] OTHER -> MinAnswers

session == <<token, username, article_slug, created_slug, headers>>
vars == <<api, users, enteredCheck, stopSignal, stopAt, arch, state, pc, cur, seqIdx,
          login_username, token, username, article_slug, created_slug,
          headers, last, setupLog, iterLog, total, assigned, mix>>
population == <<total, assigned, mix>>

NoDetail == [kind |-> "none", code |-> -1]
\* f"Got status code {response.status_code}"
StatusDetail(st) == [kind |-> "status", code |-> st]
\* "Failed to parse ..."
ParseDetail == [kind |-> "parse", code |-> -1]

\* No step executed yet
NoExec ==
    [step |-> "none", done |-> TRUE, requested |-> FALSE, path |-> <<>>,
     auth |-> <<>>, email |-> <<>>, status |-> -1, body |-> "none",
     btoken |-> Unset, marks |-> <<>>, detail |-> NoDetail]

TypeOK ==
    /\ api \in {"any", "few", "min"}
    /\ users \subseteq {1, 2}
    /\ enteredCheck \in BOOLEAN
    /\ stopSignal \in BOOLEAN
    /\ total \in 0..MaxLaunch
    /\ assigned \in [DOMAIN UserWeights -> 0..MaxLaunch]
    /\ mix \in {"plan", "rest", "done"}
    /\ \A u \in users :
        /\ arch[u] \in Archetypes
        /\ state[u] \in {"Starting", "Running", "Stopped", "Crashed"}
        /\ pc[u] \in {"setup", "register", "login", "idle", "inflight", "think", "wait", "done"}
        /\ seqIdx[u] \in 1..Len(CreatorTasks)
        /\ token[u] \in Tokens \cup {Unset, None}
        /\ username[u] \in {Unset} \cup ReaderNames \cup CreatorNames
        /\ article_slug[u] \in Slugs \cup {Unset, None}
        /\ created_slug[u] \in Slugs \cup {Unset}
        /\ headers[u] \in Tokens \cup {Unset}
        /\ last[u].marks \in Seq({"success", "failure"})
        /\ Len(setupLog[u]) <= 2
        /\ Len(iterLog[u]) <= Len(CreatorTasks)

InitFor(U) ==
    /\ users = U
    /\ enteredCheck \in BOOLEAN
    /\ stopSignal = FALSE
    /\ stopAt = [u \in U |-> "none"]
    /\ arch \in [U -> Archetypes]
    /\ state = [u \in U |-> "Starting"]
    /\ pc = [u \in U |-> "setup"]
    /\ cur = [u \in U |-> "none"]
    /\ seqIdx = [u \in U |-> 1]
    /\ login_username = [u \in U |-> Unset]
    /\ token = [u \in U |-> Unset]
    /\ username = [u \in U |-> Unset]
    /\ article_slug = [u \in U |-> Unset]
    /\ created_slug = [u \in U |-> Unset]
    /\ headers = [u \in U |-> Unset]
    /\ last = [u \in U |-> NoExec]
    /\ setupLog = [u \in U |-> <<>>]
    /\ iterLog = [u \in U |-> <<>>]

\* the users of the run are given: nothing is left to assign
Settled ==
    /\ total = 0
    /\ assigned = [A \in DOMAIN UserWeights |-> 0]
    /\ mix = "done"

\* one user, and an API that may answer anything
Init == InitFor({1}) /\ api = "any" /\ Settled

\* two users, the second an anonymous reader, and an API that answers from
\* MinAnswers
InitTwo == InitFor({1, 2}) /\ api = "min" /\ arch[2] = "AnonymousUser" /\ Settled

\* one user, and an API that answers from FewAnswers
InitFew == InitFor({1}) /\ api = "few" /\ Settled

\* a run of total users, none of them started yet
InitMix ==
    /\ InitFor({})
    /\ api = "min"
    /\ total \in 0..MaxLaunch
    /\ assigned = [A \in DOMAIN UserWeights |-> 0]
    /\ mix = "plan"

(***************************************************************************)
(* What is kept of a step execution.                                       *)
(***************************************************************************)
\* the task returned before building a request
Skipped(step) == [NoExec EXCEPT !.step = step]
\* the request was sent and its response is awaited
Request(step, path, auth) ==
    [NoExec EXCEPT !.step = step, !.done = FALSE, !.requested = TRUE,
                   !.path = path, !.auth = auth]
\* the response arrived and the handler called success()/failure() as in marks
Answered(r, st, b, marks, detail) ==
    [r EXCEPT !.done = TRUE, !.status = st, !.body = b.kind,
              !.btoken = IF HasUserToken(b) THEN UserToken(b) ELSE Unset,
              !.marks = marks, !.detail = detail]

\* the credential sent under the Bearer scheme
Authorization_bearer(t) == <<"Bearer", Str(t)>>

\* headers = {"Authorization": f"Token {self.token}"}
Authorization(t) == <<"Token", Str(t)>>
NoAuthorization == <<>>

(***************************************************************************)
(* The loop of a virtual user: task selection.                             *)
(***************************************************************************)
env == <<api, users, enteredCheck, stopSignal, stopAt, arch, population>>

AtLoop(u, A) ==
    /\ u \in users
    /\ arch[u] = A
    /\ state[u] = "Running"
    /\ pc[u] = "idle"
    /\ ~stopSignal

\* a scheduler that never runs the same task twice in a row
Weighted_no_repeat(u, A, tasks, t) ==
    /\ AtLoop(u, A)
    /\ cur[u] # t
    /\ \E k \in 1..tasks[t] : TRUE
    /\ UNCHANGED <<seqIdx, iterLog>>

\* TaskSet: random.choice over the pool that holds task t weight-many times
Weighted(u, A, tasks, t) ==
    /\ AtLoop(u, A)
    /\ \E k \in 1..tasks[t] : TRUE
    /\ UNCHANGED <<seqIdx, iterLog>>

Awaiting(u, A, t) ==
    /\ u \in users
    /\ arch[u] = A
    /\ pc[u] = "inflight"
    /\ cur[u] = t

\* the task returned early: nothing was sent, the loop goes on to wait_time
Skip(u, t) ==
    /\ last' = [last EXCEPT ![u] = Skipped(t)]
    /\ cur' = [cur EXCEPT ![u] = t]
    /\ pc' = [pc EXCEPT ![u] = "wait"]

\* self.client.get / self.client.post
Issue(u, t, path, auth) ==
    /\ last' = [last EXCEPT ![u] = Request(t, path, auth)]
    /\ cur' = [cur EXCEPT ![u] = t]
    /\ pc' = [pc EXCEPT ![u] = "inflight"]

\* the with-block ran for response (st, b)
Exit(u, st, b, marks, detail, next) ==
    /\ last' = [last EXCEPT ![u] = Answered(last[u], st, b, marks, detail)]
    /\ pc' = [pc EXCEPT ![u] = next]
    /\ UNCHANGED cur

(***************************************************************************)
(* AnonymousReaderBehavior                                                 *)
(***************************************************************************)
AnonymousReaderBehavior_on_start(u) ==
    /\ u \in users
    /\ arch[u] = "AnonymousUser"
    /\ pc[u] = "setup"
    /\ article_slug' = [article_slug EXCEPT ![u] = None]
    /\ state' = [state EXCEPT ![u] = "Running"]
    /\ pc' = [pc EXCEPT ![u] = "idle"]
    /\ UNCHANGED <<env, cur, seqIdx, login_username, token, username,
                   created_slug, headers, last, setupLog, iterLog>>

AnonymousReaderBehavior_view_tags(u) ==
    /\ Weighted(u, "AnonymousUser", AnonymousTasks, "view_tags")
    /\ Issue(u, "view_tags", <<"api", "tags">>, NoAuthorization)
    /\ UNCHANGED <<env, state, login_username, session, setupLog>>

AnonymousReaderBehavior_view_tags_response(u) ==
    /\ Awaiting(u, "AnonymousUser", "view_tags")
    /\ \E a \in Answers : LET st == a[1] b == a[2] IN
        IF st = 200
        THEN Exit(u, st, b, <<"success">>, NoDetail, "wait")
        ELSE Exit(u, st, b, <<"failure">>, StatusDetail(st), "wait")
    /\ UNCHANGED <<env, state, seqIdx, login_username, session, setupLog, iterLog>>

AnonymousReaderBehavior_browse_articles(u) ==
    /\ Weighted(u, "AnonymousUser", AnonymousTasks, "browse_articles")
    /\ Issue(u, "browse_articles", <<"api", "articles">>, NoAuthorization)
    /\ UNCHANGED <<env, state, login_username, session, setupLog>>

\* the slug is stored on the class, which all users share
browse_articles_response_class_attribute(u) ==
    /\ Awaiting(u, "AnonymousUser", "browse_articles")
    /\ \E a \in Answers : LET st == a[1] b == a[2] IN
        IF st = 200
        THEN IF JsonOk(b)
             THEN /\ IF GetArticles(b) # <<>>
                     THEN \E i \in 1..Len(GetArticles(b)) :
                            article_slug' = [v \in users |->
                                               GetSlug(GetArticles(b)[i])]
                     ELSE UNCHANGED article_slug
                  /\ Exit(u, st, b, <<"success">>, NoDetail, "wait")
             ELSE /\ UNCHANGED article_slug
                  /\ Exit(u, st, b, <<"failure">>, ParseDetail, "wait")
        ELSE /\ UNCHANGED article_slug
             /\ Exit(u, st, b, <<"failure">>, StatusDetail(st), "wait")
    /\ UNCHANGED <<env, state, seqIdx, login_username, token, username,
                   created_slug, headers, setupLog, iterLog>>

AnonymousReaderBehavior_browse_articles_response(u) ==
    /\ Awaiting(u, "AnonymousUser", "browse_articles")
    /\ \E a \in Answers : LET st == a[1] b == a[2] IN
        IF st = 200
        THEN IF JsonOk(b)
             THEN /\ IF GetArticles(b) # <<>>
                     THEN \E i \in 1..Len(GetArticles(b)) :
                            article_slug' = [article_slug EXCEPT
                                               ![u] = GetSlug(GetArticles(b)[i])]
                     ELSE UNCHANGED article_slug
                  /\ Exit(u, st, b, <<"success">>, NoDetail, "wait")
             ELSE /\ UNCHANGED article_slug
                  /\ Exit(u, st, b, <<"failure">>, ParseDetail, "wait")
        ELSE /\ UNCHANGED article_slug
             /\ Exit(u, st, b, <<"failure">>, StatusDetail(st), "wait")
    /\ UNCHANGED <<env, state, seqIdx, login_username, token, username,
                   created_slug, headers, setupLog, iterLog>>

AnonymousReaderBehavior_read_article(u) ==
    /\ Weighted(u, "AnonymousUser", AnonymousTasks, "read_article")
    /\ Issue(u, "read_article",
             <<"api", "articles", Str(getattr(article_slug[u], Fallback))>>,
             NoAuthorization)
    /\ UNCHANGED <<env, state, login_username, session, setupLog>>

AnonymousReaderBehavior_read_article_response(u) ==
    /\ Awaiting(u, "AnonymousUser", "read_article")
    /\ \E a \in Answers : LET st == a[1] b == a[2] IN
        IF st = 200
        THEN Exit(u, st, b, <<"success">>, NoDetail, "wait")
        ELSE IF st = 404
             THEN Exit(u, st, b, <<"success">>, NoDetail, "wait")
             ELSE Exit(u, st, b, <<"failure">>, StatusDetail(st), "wait")
    /\ UNCHANGED <<env, state, seqIdx, login_username, session, setupLog, iterLog>>

(***************************************************************************)
(* Setup requests.  login() calls self.client.post(..., catch_response=    *)
(* True) without a with-block, so nothing classifies the response but the  *)
(* calls login() makes itself.  Its success() call sits inside the try     *)
(* with a bare except, on a response that was never entered: a client     *)
(* that checks this raises LocustError from success(), which the except    *)
(* swallows; a client that does not just marks the response.  Which of the *)
(* two is installed is not decided by the source: enteredCheck is chosen   *)
(* at Init and both outcomes are explored.                                 *)
(***************************************************************************)
\* f"{username}@loadtest.com"
Email(name) == <<name, "loadtest.com">>

SetupRequest(step, path, name) ==
    [Request(step, path, NoAuthorization) EXCEPT !.email = Email(name)]

\* on_start returned: the TaskSet loop begins
EnterLoop(u) ==
    /\ state' = [state EXCEPT ![u] = "Running"]
    /\ pc' = [pc EXCEPT ![u] = "idle"]

(***************************************************************************)
(* AuthenticatedReaderBehavior                                             *)
(***************************************************************************)
\* on_start -> login(): lines 96-112, the registration request
AuthenticatedReaderBehavior_login(u) ==
    /\ u \in users
    /\ arch[u] = "AuthenticatedUser"
    /\ pc[u] = "setup"
    /\ \E name \in ReaderNames :
        /\ login_username' = [login_username EXCEPT ![u] = name]
        /\ last' = [last EXCEPT ![u] =
                      SetupRequest("register", <<"api", "users">>, name)]
    /\ cur' = [cur EXCEPT ![u] = "register"]
    /\ pc' = [pc EXCEPT ![u] = "register"]
    /\ UNCHANGED <<env, state, seqIdx, session, setupLog, iterLog>>

\* login(): lines 114-135, the registration response and the login request
AuthenticatedReaderBehavior_login_register_response(u) ==
    /\ u \in users
    /\ arch[u] = "AuthenticatedUser"
    /\ pc[u] = "register"
    /\ \E a \in Answers : LET st == a[1] b == a[2] IN
        LET \* lines 116-118 ran without an exception
            parsed == st \in {200, 201} /\ JsonOk(b) /\ HasUserToken(b)
            \* register_response.success() returned and login() returns
            returned == parsed /\ ~enteredCheck
            reg == Answered(last[u], st, b,
                            IF returned THEN <<"success">> ELSE <<>>, NoDetail)
        IN  /\ token' = IF parsed THEN [token EXCEPT ![u] = UserToken(b)] ELSE token
            /\ username' = IF parsed
                           THEN [username EXCEPT ![u] = login_username[u]]
                           ELSE username
            /\ setupLog' = [setupLog EXCEPT ![u] = Append(@, reg)]
            /\ IF returned
               THEN /\ last' = [last EXCEPT ![u] = reg]
                    /\ EnterLoop(u)
                    /\ UNCHANGED cur
               ELSE /\ last' = [last EXCEPT ![u] =
                                  SetupRequest("login", <<"api", "users", "login">>,
                                               login_username[u])]
                    /\ cur' = [cur EXCEPT ![u] = "login"]
                    /\ pc' = [pc EXCEPT ![u] = "login"]
                    /\ UNCHANGED state
    /\ UNCHANGED <<env, seqIdx, login_username, article_slug, created_slug,
                   headers, iterLog>>

\* login(): lines 137-146, the login response
AuthenticatedReaderBehavior_login_login_response(u) ==
    /\ u \in users
    /\ arch[u] = "AuthenticatedUser"
    /\ pc[u] = "login"
    /\ \E a \in Answers : LET st == a[1] b == a[2] IN
        LET parsed == st = 200 /\ JsonOk(b) /\ HasUserToken(b)
            returned == parsed /\ ~enteredCheck
            log == Answered(last[u], st, b,
                            IF returned THEN <<"success">> ELSE <<>>, NoDetail)
        IN  /\ token' = [token EXCEPT ![u] = IF returned THEN UserToken(b) ELSE None]
            /\ username' = IF parsed
                           THEN [username EXCEPT ![u] = login_username[u]]
                           ELSE username
            /\ setupLog' = [setupLog EXCEPT ![u] = Append(@, log)]
            /\ last' = [last EXCEPT ![u] = log]
    /\ EnterLoop(u)
    /\ UNCHANGED <<env, cur, seqIdx, login_username, article_slug, created_slug,
                   headers, iterLog>>

\* a task that finds no credential logs in again before giving up
view_feed_login_again(u) ==
    /\ Weighted(u, "AuthenticatedUser", AuthenticatedTasks, "view_feed")
    /\ IF Falsy(token[u])
       THEN /\ last' = [last EXCEPT ![u] =
                          SetupRequest("login", <<"api", "users", "login">>,
                                       login_username[u])]
            /\ cur' = [cur EXCEPT ![u] = "login"]
            /\ pc' = [pc EXCEPT ![u] = "login"]
       ELSE Issue(u, "view_feed", <<"api", "articles", "feed">>,
                  Authorization(token[u]))
    /\ UNCHANGED <<env, state, login_username, session, setupLog>>

AuthenticatedReaderBehavior_view_feed(u) ==
    /\ Weighted(u, "AuthenticatedUser", AuthenticatedTasks, "view_feed")
    /\ IF Falsy(token[u])
       THEN Skip(u, "view_feed")
       ELSE Issue(u, "view_feed", <<"api", "articles", "feed">>,
                  Authorization(token[u]))
    /\ UNCHANGED <<env, state, login_username, session, setupLog>>

\* response.json() is called without a try: the exception ends the user
view_feed_response_unguarded_json(u) ==
    /\ Awaiting(u, "AuthenticatedUser", "view_feed")
    /\ \E a \in Answers : LET st == a[1] b == a[2] IN
        IF st = 200
        THEN IF JsonOk(b)
             THEN /\ IF GetArticles(b) # <<>>
                     THEN \E i \in 1..Len(GetArticles(b)) :
                            article_slug' = [article_slug EXCEPT
                                               ![u] = GetSlug(GetArticles(b)[i])]
                     ELSE UNCHANGED article_slug
                  /\ Exit(u, st, b, <<"success">>, NoDetail, "wait")
             ELSE /\ UNCHANGED article_slug
                  /\ Exit(u, st, b, <<"failure">>, ParseDetail, "done")
        ELSE /\ UNCHANGED article_slug
             /\ Exit(u, st, b, <<"failure">>, StatusDetail(st), "wait")
    /\ state' = [state EXCEPT ![u] = IF pc'[u] = "done" THEN "Crashed" ELSE @]
    /\ UNCHANGED <<env, seqIdx, login_username, token, username,
                   created_slug, headers, setupLog, iterLog>>

AuthenticatedReaderBehavior_view_feed_response(u) ==
    /\ Awaiting(u, "AuthenticatedUser", "view_feed")
    /\ \E a \in Answers : LET st == a[1] b == a[2] IN
        IF st = 200
        THEN IF JsonOk(b)
             THEN /\ IF GetArticles(b) # <<>>
                     THEN \E i \in 1..Len(GetArticles(b)) :
                            article_slug' = [article_slug EXCEPT
                                               ![u] = GetSlug(GetArticles(b)[i])]
                     ELSE UNCHANGED article_slug
                  /\ Exit(u, st, b, <<"success">>, NoDetail, "wait")
             ELSE /\ UNCHANGED article_slug
                  /\ Exit(u, st, b, <<"failure">>, ParseDetail, "wait")
        ELSE /\ UNCHANGED article_slug
             /\ Exit(u, st, b, <<"failure">>, StatusDetail(st), "wait")
    /\ UNCHANGED <<env, state, seqIdx, login_username, token, username,
                   created_slug, headers, setupLog, iterLog>>

AuthenticatedReaderBehavior_read_article(u) ==
    /\ Weighted(u, "AuthenticatedUser", AuthenticatedTasks, "read_article")
    /\ IF Falsy(token[u])
       THEN Skip(u, "read_article")
       ELSE LET slug == getattr(article_slug[u], Fallback)
            IN  Issue(u, "read_article", <<"api", "articles", Str(slug)>>,
                      Authorization(token[u]))
    /\ UNCHANGED <<env, state, login_username, session, setupLog>>

AuthenticatedReaderBehavior_read_article_response(u) ==
    /\ Awaiting(u, "AuthenticatedUser", "read_article")
    /\ \E a \in Answers : LET st == a[1] b == a[2] IN
        IF st \in {200, 404}
        THEN Exit(u, st, b, <<"success">>, NoDetail, "wait")
        ELSE Exit(u, st, b, <<"failure">>, StatusDetail(st), "wait")
    /\ UNCHANGED <<env, state, seqIdx, login_username, session, setupLog, iterLog>>

AuthenticatedReaderBehavior_browse_all_articles(u) ==
    /\ Weighted(u, "AuthenticatedUser", AuthenticatedTasks, "browse_all_articles")
    /\ IF Falsy(token[u])
       THEN Skip(u, "browse_all_articles")
       ELSE Issue(u, "browse_all_articles", <<"api", "articles">>,
                  Authorization(token[u]))
    /\ UNCHANGED <<env, state, login_username, session, setupLog>>

AuthenticatedReaderBehavior_browse_all_articles_response(u) ==
    /\ Awaiting(u, "AuthenticatedUser", "browse_all_articles")
    /\ \E a \in Answers : LET st == a[1] b == a[2] IN
        IF st = 200
        THEN Exit(u, st, b, <<"success">>, NoDetail, "wait")
        ELSE Exit(u, st, b, <<"failure">>, StatusDetail(st), "wait")
    /\ UNCHANGED <<env, state, seqIdx, login_username, session, setupLog, iterLog>>

AuthenticatedReaderBehavior_view_profile(u) ==
    /\ Weighted(u, "AuthenticatedUser", AuthenticatedTasks, "view_profile")
    /\ IF Falsy(token[u]) \/ ~hasattr(username[u])
       THEN Skip(u, "view_profile")
       ELSE Issue(u, "view_profile", <<"api", "profiles", Str(username[u])>>,
                  Authorization(token[u]))
    /\ UNCHANGED <<env, state, login_username, session, setupLog>>

AuthenticatedReaderBehavior_view_profile_response(u) ==
    /\ Awaiting(u, "AuthenticatedUser", "view_profile")
    /\ \E a \in Answers : LET st == a[1] b == a[2] IN
        IF st = 200
        THEN Exit(u, st, b, <<"success">>, NoDetail, "wait")
        ELSE Exit(u, st, b, <<"failure">>, StatusDetail(st), "wait")
    /\ UNCHANGED <<env, state, seqIdx, login_username, session, setupLog, iterLog>>

(***************************************************************************)
(* ContentCreatorBehavior (SequentialTaskSet)                              *)
(***************************************************************************)
\* SequentialTaskSet: the next task is the one at the index, which then
\* advances and wraps around
Sequential(u, t) ==
    /\ AtLoop(u, "ContentCreator")
    /\ CreatorTasks[seqIdx[u]] = t
    /\ seqIdx' = [seqIdx EXCEPT ![u] = (@ % Len(CreatorTasks)) + 1]

\* what the current pass of the workflow did before the task being
\* scheduled; a new pass starts with the first task
Pass(u) == IF seqIdx[u] = 1 THEN <<>> ELSE iterLog[u]
Entry(step, outcome, target, ret) ==
    [step |-> step, outcome |-> outcome, target |-> target, ret |-> ret]
Logged(u, e) == iterLog' = [iterLog EXCEPT ![u] = Append(@, e)]

CreatorSkip(u, t) ==
    /\ Skip(u, t)
    /\ iterLog' = [iterLog EXCEPT ![u] = Append(Pass(u), Entry(t, "skipped", Unset, Unset))]

CreatorIssue(u, t, path) ==
    /\ Issue(u, t, path, Authorization(token[u]))
    /\ iterLog' = [iterLog EXCEPT ![u] = Pass(u)]

\* on_start -> login(): lines 249-265, the registration request
ContentCreatorBehavior_login(u) ==
    /\ u \in users
    /\ arch[u] = "ContentCreator"
    /\ pc[u] = "setup"
    /\ \E name \in CreatorNames :
        /\ login_username' = [login_username EXCEPT ![u] = name]
        /\ last' = [last EXCEPT ![u] =
                      SetupRequest("register", <<"api", "users">>, name)]
    /\ cur' = [cur EXCEPT ![u] = "register"]
    /\ pc' = [pc EXCEPT ![u] = "register"]
    /\ UNCHANGED <<env, state, seqIdx, session, setupLog, iterLog>>

\* login(): lines 267-277, the registration response
ContentCreatorBehavior_login_register_response(u) ==
    /\ u \in users
    /\ arch[u] = "ContentCreator"
    /\ pc[u] = "register"
    /\ \E a \in Answers : LET st == a[1] b == a[2] IN
        LET parsed == st \in {200, 201} /\ JsonOk(b) /\ HasUserToken(b)
            returned == parsed /\ ~enteredCheck
            reg == Answered(last[u], st, b,
                            IF returned THEN <<"success">> ELSE <<>>, NoDetail)
        IN  /\ token' = [token EXCEPT ![u] = IF returned THEN UserToken(b) ELSE None]
            /\ username' = IF parsed
                           THEN [username EXCEPT ![u] = login_username[u]]
                           ELSE username
            /\ setupLog' = [setupLog EXCEPT ![u] = Append(@, reg)]
            /\ last' = [last EXCEPT ![u] = reg]
    /\ EnterLoop(u)
    /\ UNCHANGED <<env, cur, seqIdx, login_username, article_slug, created_slug,
                   headers, iterLog>>

ContentCreatorBehavior_browse_feed(u) ==
    /\ Sequential(u, "browse_feed")
    /\ IF Falsy(token[u])
       THEN CreatorSkip(u, "browse_feed")
       ELSE CreatorIssue(u, "browse_feed", <<"api", "articles", "feed">>)
    /\ UNCHANGED <<env, state, login_username, session, setupLog>>

ContentCreatorBehavior_browse_feed_response(u) ==
    /\ Awaiting(u, "ContentCreator", "browse_feed")
    /\ \E a \in Answers : LET st == a[1] b == a[2] IN
        IF st = 200
        THEN IF JsonOk(b)
             THEN /\ IF GetArticles(b) # <<>>
                     THEN \E i \in 1..Len(GetArticles(b)) :
                            LET slug == GetSlug(GetArticles(b)[i])
                            IN  /\ article_slug' = [article_slug EXCEPT ![u] = slug]
                                /\ Logged(u, Entry("browse_feed", "success", Unset, slug))
                     ELSE /\ UNCHANGED article_slug
                          /\ Logged(u, Entry("browse_feed", "success", Unset, Unset))
                  /\ Exit(u, st, b, <<"success">>, NoDetail, "think")
             ELSE /\ UNCHANGED article_slug
                  /\ Logged(u, Entry("browse_feed", "failure", Unset, Unset))
                  /\ Exit(u, st, b, <<"failure">>, ParseDetail, "think")
        ELSE /\ UNCHANGED article_slug
             /\ Logged(u, Entry("browse_feed", "failure", Unset, Unset))
             /\ Exit(u, st, b, <<"failure">>, StatusDetail(st), "think")
    /\ UNCHANGED <<env, state, seqIdx, login_username, token, username,
                   created_slug, headers, setupLog>>

ContentCreatorBehavior_create_article(u) ==
    /\ Sequential(u, "create_article")
    /\ IF Falsy(token[u])
       THEN CreatorSkip(u, "create_article")
       ELSE CreatorIssue(u, "create_article", <<"api", "articles">>)
    /\ UNCHANGED <<env, state, login_username, session, setupLog>>

\* the except branch swallows the parse error without classifying the response
create_article_response_silent_except(u) ==
    /\ Awaiting(u, "ContentCreator", "create_article")
    /\ \E a \in Answers : LET st == a[1] b == a[2] IN
        IF st \in {200, 201}
        THEN IF JsonOk(b) /\ HasArticleSlug(b)
             THEN /\ created_slug' = [created_slug EXCEPT ![u] = ArticleSlug(b)]
                  /\ Logged(u, Entry("create_article", "success", Unset, ArticleSlug(b)))
                  /\ Exit(u, st, b, <<"success">>, NoDetail, "think")
             ELSE /\ UNCHANGED created_slug
                  /\ Logged(u, Entry("create_article", "failure", Unset, Unset))
                  /\ Exit(u, st, b, <<>>, NoDetail, "think")
        ELSE /\ UNCHANGED created_slug
             /\ Logged(u, Entry("create_article", "failure", Unset, Unset))
             /\ Exit(u, st, b, <<"failure">>, StatusDetail(st), "think")
    /\ UNCHANGED <<env, state, seqIdx, login_username, token, username,
                   article_slug, headers, setupLog>>

ContentCreatorBehavior_create_article_response(u) ==
    /\ Awaiting(u, "ContentCreator", "create_article")
    /\ \E a \in Answers : LET st == a[1] b == a[2] IN
        IF st \in {200, 201}
        THEN IF JsonOk(b) /\ HasArticleSlug(b)
             THEN /\ created_slug' = [created_slug EXCEPT ![u] = ArticleSlug(b)]
                  /\ Logged(u, Entry("create_article", "success", Unset, ArticleSlug(b)))
                  /\ Exit(u, st, b, <<"success">>, NoDetail, "think")
             ELSE /\ UNCHANGED created_slug
                  /\ Logged(u, Entry("create_article", "failure", Unset, Unset))
                  /\ Exit(u, st, b, <<"failure">>, ParseDetail, "think")
        ELSE /\ UNCHANGED created_slug
             /\ Logged(u, Entry("create_article", "failure", Unset, Unset))
             /\ Exit(u, st, b, <<"failure">>, StatusDetail(st), "think")
    /\ UNCHANGED <<env, state, seqIdx, login_username, token, username,
                   article_slug, headers, setupLog>>

\* only the credential is checked before the request is built
read_own_article_miss_token_only(u) == Falsy(token[u])

\* if not self.token or not hasattr(self, 'created_slug'): return
read_own_article_miss(u) == Falsy(token[u]) \/ ~hasattr(created_slug[u])

ContentCreatorBehavior_read_own_article(u) ==
    /\ Sequential(u, "read_own_article")
    /\ IF read_own_article_miss(u)
       THEN CreatorSkip(u, "read_own_article")
       ELSE CreatorIssue(u, "read_own_article",
                         <<"api", "articles", Str(created_slug[u])>>)
    /\ UNCHANGED <<env, state, login_username, session, setupLog>>

ContentCreatorBehavior_read_own_article_response(u) ==
    /\ Awaiting(u, "ContentCreator", "read_own_article")
    /\ \E a \in Answers : LET st == a[1] b == a[2] IN
        IF st = 200
        THEN /\ Logged(u, Entry("read_own_article", "success", last[u].path[3], Unset))
             /\ Exit(u, st, b, <<"success">>, NoDetail, "think")
        ELSE /\ Logged(u, Entry("read_own_article", "failure", last[u].path[3], Unset))
             /\ Exit(u, st, b, <<"failure">>, StatusDetail(st), "think")
    /\ UNCHANGED <<env, state, seqIdx, login_username, session, setupLog>>

\* the created article takes precedence over the one seen in the feed
add_comment_slug_created_first(u) ==
    getattr(created_slug[u], getattr(article_slug[u], Fallback))

\* slug = getattr(self, 'article_slug', getattr(self, 'created_slug', 'sample-article'))
add_comment_slug(u) ==
    getattr(article_slug[u], getattr(created_slug[u], Fallback))

ContentCreatorBehavior_add_comment(u) ==
    /\ Sequential(u, "add_comment")
    /\ IF Falsy(token[u])
       THEN CreatorSkip(u, "add_comment")
       ELSE CreatorIssue(u, "add_comment",
                         <<"api", "articles", Str(add_comment_slug(u)), "comments">>)
    /\ UNCHANGED <<env, state, login_username, session, setupLog>>

ContentCreatorBehavior_add_comment_response(u) ==
    /\ Awaiting(u, "ContentCreator", "add_comment")
    /\ \E a \in Answers : LET st == a[1] b == a[2] IN
        IF st \in {200, 201}
        THEN /\ Logged(u, Entry("add_comment", "success", last[u].path[3], Unset))
             /\ Exit(u, st, b, <<"success">>, NoDetail, "wait")
        ELSE IF st = 404
             THEN /\ Logged(u, Entry("add_comment", "success", last[u].path[3], Unset))
                  /\ Exit(u, st, b, <<"success">>, NoDetail, "wait")
             ELSE /\ Logged(u, Entry("add_comment", "failure", last[u].path[3], Unset))
                  /\ Exit(u, st, b, <<"failure">>, StatusDetail(st), "wait")
    /\ UNCHANGED <<env, state, seqIdx, login_username, session, setupLog>>

\* after the sleep the task goes on to post its comment at once, without
\* returning to the loop
time_sleep_then_comment(u) ==
    /\ u \in users
    /\ pc[u] = "think"
    /\ Issue(u, "add_comment",
             <<"api", "articles", Str(add_comment_slug(u)), "comments">>,
             Authorization(token[u]))
    /\ UNCHANGED <<env, state, seqIdx, login_username, session, setupLog, iterLog>>

\* time.sleep(random.uniform(a, b)) that ends browse_feed, create_article and
\* read_own_article: the task returns and the loop goes on to wait_time
time_sleep(u) ==
    /\ u \in users
    /\ pc[u] = "think"
    /\ pc' = [pc EXCEPT ![u] = "wait"]
    /\ UNCHANGED <<env, state, cur, seqIdx, login_username, session, last,
                   setupLog, iterLog>>

(***************************************************************************)
(* ConduitUser (src/user_flow/locustfile.py).  Its requests are made       *)
(* without catch_response: the client classifies them by status alone.     *)
(***************************************************************************)
\* requests' raise_for_status, and status 0 for a transport error
AutoMark(st) == IF st = 0 \/ st >= 400 THEN <<"failure">> ELSE <<"success">>

\* on_start: lines 9-14, the login request
ConduitUser_on_start(u) ==
    /\ u \in users
    /\ arch[u] = "ConduitUser"
    /\ pc[u] = "setup"
    /\ last' = [last EXCEPT ![u] =
                  Request("login", <<"api", "users", "login">>, NoAuthorization)]
    /\ cur' = [cur EXCEPT ![u] = "login"]
    /\ pc' = [pc EXCEPT ![u] = "login"]
    /\ UNCHANGED <<env, state, seqIdx, login_username, session, setupLog, iterLog>>

\* on_start: lines 15-21; response.json() or ["user"]["token"] may raise, and
\* an exception that leaves on_start ends the user
ConduitUser_on_start_response(u) ==
    /\ u \in users
    /\ arch[u] = "ConduitUser"
    /\ pc[u] = "login"
    /\ \E a \in Answers : LET st == a[1] b == a[2] IN
        LET log == Answered(last[u], st, b, AutoMark(st),
                            IF AutoMark(st) = <<"failure">>
                            THEN StatusDetail(st) ELSE NoDetail)
        IN  /\ last' = [last EXCEPT ![u] = log]
            /\ setupLog' = [setupLog EXCEPT ![u] = Append(@, log)]
            /\ IF JsonOk(b) /\ HasUserToken(b)
               THEN /\ headers' = [headers EXCEPT ![u] = UserToken(b)]
                    /\ EnterLoop(u)
               ELSE /\ UNCHANGED headers
                    /\ state' = [state EXCEPT ![u] = "Crashed"]
                    /\ pc' = [pc EXCEPT ![u] = "done"]
    /\ UNCHANGED <<env, cur, seqIdx, login_username, token, username,
                   article_slug, created_slug, iterLog>>

ConduitUser_list_articles(u) ==
    /\ Weighted(u, "ConduitUser", ConduitTasks, "list_articles")
    /\ Issue(u, "list_articles", <<"api", "articles">>, Authorization(headers[u]))
    /\ UNCHANGED <<env, state, login_username, session, setupLog>>

ConduitUser_list_articles_response(u) ==
    /\ Awaiting(u, "ConduitUser", "list_articles")
    /\ \E a \in Answers : LET st == a[1] b == a[2] IN
        Exit(u, st, b, AutoMark(st),
             IF AutoMark(st) = <<"failure">> THEN StatusDetail(st) ELSE NoDetail,
             "wait")
    /\ UNCHANGED <<env, state, seqIdx, login_username, session, setupLog, iterLog>>

(***************************************************************************)
(* SimpleLoadTest (src/load-testing/locust/simple-load-test.py): an        *)
(* HttpUser with weighted tasks of its own, no on_start, no session and    *)
(* no catch_response.                                                      *)
(***************************************************************************)
\* the user starts its loop at once
SimpleLoadTest_start(u) ==
    /\ u \in users
    /\ arch[u] = "SimpleLoadTest"
    /\ pc[u] = "setup"
    /\ EnterLoop(u)
    /\ UNCHANGED <<env, cur, seqIdx, login_username, session, last, setupLog, iterLog>>

\* the response of a request made without catch_response
SimpleLoadTest_response(u, t) ==
    /\ Awaiting(u, "SimpleLoadTest", t)
    /\ \E a \in Answers : LET st == a[1] b == a[2] IN
        Exit(u, st, b, AutoMark(st),
             IF AutoMark(st) = <<"failure">> THEN StatusDetail(st) ELSE NoDetail,
             "wait")
    /\ UNCHANGED <<env, state, seqIdx, login_username, session, setupLog, iterLog>>

SimpleLoadTest_get_tags(u) ==
    /\ Weighted(u, "SimpleLoadTest", SimpleTasks, "get_tags")
    /\ Issue(u, "get_tags", <<"api", "tags">>, NoAuthorization)
    /\ UNCHANGED <<env, state, login_username, session, setupLog>>

SimpleLoadTest_get_tags_response(u) == SimpleLoadTest_response(u, "get_tags")

SimpleLoadTest_get_articles(u) ==
    /\ Weighted(u, "SimpleLoadTest", SimpleTasks, "get_articles")
    /\ Issue(u, "get_articles", <<"api", "articles">>, NoAuthorization)
    /\ UNCHANGED <<env, state, login_username, session, setupLog>>

SimpleLoadTest_get_articles_response(u) == SimpleLoadTest_response(u, "get_articles")

SimpleLoadTest_get_article_detail(u) ==
    /\ Weighted(u, "SimpleLoadTest", SimpleTasks, "get_article_detail")
    /\ \E slug \in SimpleSlugs :
        Issue(u, "get_article_detail", <<"api", "articles", slug>>, NoAuthorization)
    /\ UNCHANGED <<env, state, login_username, session, setupLog>>

SimpleLoadTest_get_article_detail_response(u) ==
    SimpleLoadTest_response(u, "get_article_detail")

SimpleLoadTest_register_user(u) ==
    /\ Weighted(u, "SimpleLoadTest", SimpleTasks, "register_user")
    /\ Issue(u, "register_user", <<"api", "users">>, NoAuthorization)
    /\ UNCHANGED <<env, state, login_username, session, setupLog>>

SimpleLoadTest_register_user_response(u) ==
    SimpleLoadTest_response(u, "register_user")

(***************************************************************************)
(* The runner: pacing and the stop signal.                                 *)
(***************************************************************************)
\* wait_time = between(a, b): the pause between two tasks ends
WaitDone(u) ==
    /\ u \in users
    /\ state[u] = "Running"
    /\ pc[u] = "wait"
    /\ ~stopSignal
    /\ pc' = [pc EXCEPT ![u] = "idle"]
    /\ UNCHANGED <<env, state, cur, seqIdx, login_username, session, last, setupLog, iterLog>>

\* the external stop signal
Stop ==
    /\ ~stopSignal
    /\ stopSignal' = TRUE
    /\ stopAt' = pc
    /\ UNCHANGED <<api, users, enteredCheck, arch, state, pc, cur, seqIdx,
                   login_username, session, last, setupLog, iterLog, population>>

\* a user honours the stop signal at its loop boundary
HonorStop(u) ==
    /\ u \in users
    /\ stopSignal
    /\ state[u] = "Running"
    /\ pc[u] \in {"idle", "wait"}
    /\ state' = [state EXCEPT ![u] = "Stopped"]
    /\ pc' = [pc EXCEPT ![u] = "done"]
    /\ UNCHANGED <<env, cur, seqIdx, login_username, session, last, setupLog, iterLog>>

Next ==
    \/ \E u \in users : AnonymousReaderBehavior_on_start(u)
    \/ \E u \in users : AnonymousReaderBehavior_view_tags(u)
    \/ \E u \in users : AnonymousReaderBehavior_view_tags_response(u)
    \/ \E u \in users : AnonymousReaderBehavior_browse_articles(u)
    \/ \E u \in users : AnonymousReaderBehavior_browse_articles_response(u)
    \/ \E u \in users : AnonymousReaderBehavior_read_article(u)
    \/ \E u \in users : AnonymousReaderBehavior_read_article_response(u)
    \/ \E u \in users : AuthenticatedReaderBehavior_login(u)
    \/ \E u \in users : AuthenticatedReaderBehavior_login_register_response(u)
    \/ \E u \in users : AuthenticatedReaderBehavior_login_login_response(u)
    \/ \E u \in users : AuthenticatedReaderBehavior_view_feed(u)
    \/ \E u \in users : AuthenticatedReaderBehavior_view_feed_response(u)
    \/ \E u \in users : AuthenticatedReaderBehavior_read_article(u)
    \/ \E u \in users : AuthenticatedReaderBehavior_read_article_response(u)
    \/ \E u \in users : AuthenticatedReaderBehavior_browse_all_articles(u)
    \/ \E u \in users : AuthenticatedReaderBehavior_browse_all_articles_response(u)
    \/ \E u \in users : AuthenticatedReaderBehavior_view_profile(u)
    \/ \E u \in users : AuthenticatedReaderBehavior_view_profile_response(u)
    \/ \E u \in users : ContentCreatorBehavior_login(u)
    \/ \E u \in users : ContentCreatorBehavior_login_register_response(u)
    \/ \E u \in users : ContentCreatorBehavior_browse_feed(u)
    \/ \E u \in users : ContentCreatorBehavior_browse_feed_response(u)
    \/ \E u \in users : ContentCreatorBehavior_create_article(u)
    \/ \E u \in users : ContentCreatorBehavior_create_article_response(u)
    \/ \E u \in users : ContentCreatorBehavior_read_own_article(u)
    \/ \E u \in users : ContentCreatorBehavior_read_own_article_response(u)
    \/ \E u \in users : ContentCreatorBehavior_add_comment(u)
    \/ \E u \in users : ContentCreatorBehavior_add_comment_response(u)
    \/ \E u \in users : time_sleep(u)
    \/ \E u \in users : ConduitUser_on_start(u)
    \/ \E u \in users : ConduitUser_on_start_response(u)
    \/ \E u \in users : ConduitUser_list_articles(u)
    \/ \E u \in users : ConduitUser_list_articles_response(u)
    \/ \E u \in users : SimpleLoadTest_start(u)
    \/ \E u \in users : SimpleLoadTest_get_tags(u)
    \/ \E u \in users : SimpleLoadTest_get_tags_response(u)
    \/ \E u \in users : SimpleLoadTest_get_articles(u)
    \/ \E u \in users : SimpleLoadTest_get_articles_response(u)
    \/ \E u \in users : SimpleLoadTest_get_article_detail(u)
    \/ \E u \in users : SimpleLoadTest_get_article_detail_response(u)
    \/ \E u \in users : SimpleLoadTest_register_user(u)
    \/ \E u \in users : SimpleLoadTest_register_user_response(u)
    \/ \E u \in users : WaitDone(u)
    \/ \E u \in users : HonorStop(u)
    \/ Stop

Spec == Init /\ [][Next]_vars

\* every step user u can take
UserStep(u) ==
    \/ AnonymousReaderBehavior_on_start(u)
    \/ AnonymousReaderBehavior_view_tags(u)
    \/ AnonymousReaderBehavior_view_tags_response(u)
    \/ AnonymousReaderBehavior_browse_articles(u)
    \/ AnonymousReaderBehavior_browse_articles_response(u)
    \/ AnonymousReaderBehavior_read_article(u)
    \/ AnonymousReaderBehavior_read_article_response(u)
    \/ AuthenticatedReaderBehavior_login(u)
    \/ AuthenticatedReaderBehavior_login_register_response(u)
    \/ AuthenticatedReaderBehavior_login_login_response(u)
    \/ AuthenticatedReaderBehavior_view_feed(u)
    \/ AuthenticatedReaderBehavior_view_feed_response(u)
    \/ AuthenticatedReaderBehavior_read_article(u)
    \/ AuthenticatedReaderBehavior_read_article_response(u)
    \/ AuthenticatedReaderBehavior_browse_all_articles(u)
    \/ AuthenticatedReaderBehavior_browse_all_articles_response(u)
    \/ AuthenticatedReaderBehavior_view_profile(u)
    \/ AuthenticatedReaderBehavior_view_profile_response(u)
    \/ ContentCreatorBehavior_login(u)
    \/ ContentCreatorBehavior_login_register_response(u)
    \/ ContentCreatorBehavior_browse_feed(u)
    \/ ContentCreatorBehavior_browse_feed_response(u)
    \/ ContentCreatorBehavior_create_article(u)
    \/ ContentCreatorBehavior_create_article_response(u)
    \/ ContentCreatorBehavior_read_own_article(u)
    \/ ContentCreatorBehavior_read_own_article_response(u)
    \/ ContentCreatorBehavior_add_comment(u)
    \/ ContentCreatorBehavior_add_comment_response(u)
    \/ time_sleep(u)
    \/ ConduitUser_on_start(u)
    \/ ConduitUser_on_start_response(u)
    \/ ConduitUser_list_articles(u)
    \/ ConduitUser_list_articles_response(u)
    \/ SimpleLoadTest_start(u)
    \/ SimpleLoadTest_get_tags(u)
    \/ SimpleLoadTest_get_tags_response(u)
    \/ SimpleLoadTest_get_articles(u)
    \/ SimpleLoadTest_get_articles_response(u)
    \/ SimpleLoadTest_get_article_detail(u)
    \/ SimpleLoadTest_get_article_detail_response(u)
    \/ SimpleLoadTest_register_user(u)
    \/ SimpleLoadTest_register_user_response(u)
    \/ WaitDone(u)
    \/ HonorStop(u)

\* Each user is its own greenlet: a user that can take a step (its request is
\* answered or times out, its pause ends) eventually takes it.
\* Two users running side by side.
(***************************************************************************)
(* Population mix: total users shared out over the weighted user classes   *)
(***************************************************************************)
Assigned == assigned.AnonymousUser + assigned.AuthenticatedUser + assigned.ContentCreator
\* the share a class is sure of
Share(A, N) == (N * UserWeights[A]) \div WeightSum

\* every class gets its share
AssignShares ==
    /\ mix = "plan"
    /\ assigned' = [A \in DOMAIN UserWeights |-> Share(A, total)]
    /\ mix' = "rest"
    /\ UNCHANGED <<total, api, users, enteredCheck, stopSignal, stopAt, arch, state,
                   pc, cur, seqIdx, login_username, session, last, setupLog, iterLog>>

\* one of the users left over goes to any class
AssignRemainder(A) ==
    /\ mix = "rest"
    /\ Assigned < total
    /\ assigned' = [assigned EXCEPT ![A] = @ + 1]
    /\ UNCHANGED <<total, mix, api, users, enteredCheck, stopSignal, stopAt, arch,
                   state, pc, cur, seqIdx, login_username, session, last, setupLog,
                   iterLog>>

\* nobody is left over
AssignDone ==
    /\ mix = "rest"
    /\ Assigned = total
    /\ mix' = "done"
    /\ UNCHANGED <<total, assigned, api, users, enteredCheck, stopSignal, stopAt, arch,
                   state, pc, cur, seqIdx, login_username, session, last, setupLog,
                   iterLog>>

NextMix ==
    \/ AssignShares
    \/ \E A \in DOMAIN UserWeights : AssignRemainder(A)
    \/ AssignDone

MixSpec == InitMix /\ [][NextMix]_vars

TwoSpec == InitTwo /\ [][Next]_vars

LiveSpec == InitFew /\ [][Next]_vars /\ \A u \in {1, 2} : WF_vars(UserStep(u))

(***************************************************************************)
(* Properties                                                              *)
(***************************************************************************)
BehaviorUsers == {"AnonymousUser", "AuthenticatedUser", "ContentCreator"}
TaskSteps ==
    {"view_tags", "browse_articles", "read_article", "view_feed",
     "browse_all_articles", "view_profile", "browse_feed", "create_article",
     "read_own_article", "add_comment"}
SetupSteps == {"register", "login"}

\* the outcomes recorded for a step execution
Recorded(r) ==
    {m \in {"success", "failure"} : \E i \in 1..Len(r.marks) : r.marks[i] = m}
    \cup (IF r.requested THEN {} ELSE {"skipped"})

\* C1: every finished execution of a task of the three behaviours has exactly
\* one recorded outcome among success, failure and skipped: never two, never
\* none, whatever the status and the body of the response.
C1_ExactlyOneOutcome ==
    \A u \in users :
        (arch[u] \in BehaviorUsers /\ last[u].step \in TaskSteps /\ last[u].done)
        => /\ Cardinality(Recorded(last[u])) = 1
           /\ Len(last[u].marks) <= 1

\* an accepted create-article response with an unparseable body was classified
C1_Witness ==
    \E u \in users :
        /\ last[u].step = "create_article"
        /\ last[u].done
        /\ last[u].status = 201
        /\ last[u].body = "garbage"
        /\ last[u].marks = <<"failure">>

\* the create-article step of the current pass succeeded and returned x
CreatedInPass(u, x) ==
    \E i \in DOMAIN iterLog[u] :
        /\ iterLog[u][i].step = "create_article"
        /\ iterLog[u][i].outcome = "success"
        /\ iterLog[u][i].ret = x

CommentRequested(u) ==
    /\ arch[u] = "ContentCreator"
    /\ last[u].step = "add_comment"
    /\ last[u].requested

\* C2 as claimed: when create-item succeeded in the pass and returned x, the
\* comment step of the same pass posts to /api/articles/x/comments, whatever
\* the session held before.
C2_CommentTargetsCreated ==
    \A u \in users : \A x \in Slugs :
        (CommentRequested(u) /\ CreatedInPass(u, x))
        => last[u].path = <<"api", "articles", x, "comments">>

\* C2 amended: the comment step targets the identifier a feed response stored
\* in the session when there is one (the text "None" when the chosen feed
\* item had no slug), and the created identifier x only when no feed response
\* stored anything.
C2_CommentTargetsFeedThenCreated ==
    \A u \in users : \A x \in Slugs :
        (CommentRequested(u) /\ CreatedInPass(u, x))
        => last[u].path =
              <<"api", "articles",
                IF article_slug[u] # Unset THEN Str(article_slug[u]) ELSE x,
                "comments">>

\* a comment was posted to the created article, the feed having stored nothing
C2_Witness ==
    \E u \in users :
        /\ CommentRequested(u)
        /\ CreatedInPass(u, "xyz")
        /\ article_slug[u] = Unset
        /\ last[u].path = <<"api", "articles", "xyz", "comments">>

SetupDone(u) == pc[u] \notin {"setup", "register", "login"}

\* the status codes each request accepts
AllowList(step) ==
    CASE step = "register" -> {200, 201}
      [] step = "login" -> {200}
      [] step \in {"read_article"} -> {200, 404}
      [] step = "create_article" -> {200, 201}
      [] step = "add_comment" -> {200, 201, 404}
      [] OTHER -> {200}

\* a setup response that yields a credential: accepted status, user.token in the body
Yields(r) == r.status \in AllowList(r.step) /\ r.btoken # Unset
SetupFailed(u) ==
    /\ setupLog[u] # <<>>
    /\ \A i \in DOMAIN setupLog[u] : ~Yields(setupLog[u][i])

\* C3 as claimed: for every user class, when setup failed (rejected status,
\* unparseable body or body without a token) the user still runs its loop
\* and every step that depends on the credential is skipped: no request, no
\* failure.
C3_SetupFailureSkipsAuthSteps ==
    \A u \in users :
        (SetupDone(u) /\ SetupFailed(u))
        => /\ state[u] \in {"Running", "Stopped"}
           /\ last[u].step \in TaskSteps \cup {"list_articles"}
              => (~last[u].requested /\ last[u].marks = <<>>)

\* C4 as claimed: a read-item step that runs while the session holds no
\* content identifier requests the placeholder identifier, never a null
\* value, and a 404 answer to it is a success.
C4_ReadUsesPlaceholder ==
    \A u \in users :
        (/\ arch[u] \in {"AnonymousUser", "AuthenticatedUser"}
         /\ last[u].step = "read_article"
         /\ last[u].requested
         /\ article_slug[u] \in {Unset, None})
        => /\ last[u].path = <<"api", "articles", "sample-article">>
           /\ (last[u].done /\ last[u].status = 404) => last[u].marks = <<"success">>

UnexpectedIsFailure(r) ==
    (r.done /\ r.requested /\ r.status \notin AllowList(r.step))
    => (r.marks = <<"failure">> /\ r.detail = StatusDetail(r.status))

C6_UnexpectedStatusIsFailure ==
    \A u \in users :
        arch[u] \in BehaviorUsers =>
            /\ UnexpectedIsFailure(last[u])
            /\ \A i \in DOMAIN setupLog[u] : UnexpectedIsFailure(setupLog[u][i])
            /\ state[u] # "Crashed"

\* the session as the specification sees it: a credential that was never
\* assigned and one that is None are both absent
SessionOf(u) ==
    <<IF token[u] = Unset THEN None ELSE token[u], username[u], article_slug[u],
      created_slug[u], headers[u]>>

\* u handles a response in this step
Responds(u) ==
    /\ pc[u] \in {"inflight", "register", "login"}
    /\ pc'[u] # pc[u]
\* ... and this is the answered request
AnswerOf(u) ==
    IF Len(setupLog'[u]) > Len(setupLog[u])
    THEN setupLog'[u][Len(setupLog'[u])]
    ELSE last'[u]

\* accepted status, but the body is not what the step parses out of it
ParseFailed(r) ==
    /\ r.status \in AllowList(r.step)
    /\ \/ /\ r.step \in {"browse_articles", "view_feed", "browse_feed",
                         "create_article", "register", "login"}
          /\ r.body = "garbage"
       \/ r.step = "create_article" /\ r.body # "article"
       \/ r.step \in SetupSteps /\ r.body # "user"

\* C7 as claimed: for every step, setup included, an accepted status with a
\* body that cannot be parsed is recorded as a failure with a parse-error
\* detail, changes no session field, and the user goes on.
C7_ParseFailureIsFailure ==
    [][\A u \in users :
        (arch[u] \in BehaviorUsers /\ Responds(u) /\ ParseFailed(AnswerOf(u)))
        => /\ AnswerOf(u).marks = <<"failure">>
           /\ AnswerOf(u).detail = ParseDetail
           /\ SessionOf(u)' = SessionOf(u)
           /\ state'[u] # "Crashed"]_vars

\* the precondition of task t is missing in the session of u
PreconditionMiss(u, t) ==
    /\ arch[u] \in {"AuthenticatedUser", "ContentCreator"}
    /\ \/ token[u] \in {Unset, None}
       \/ t = "view_profile" /\ username[u] = Unset
       \/ t = "read_own_article" /\ created_slug[u] = Unset

\* C8: a task scheduled while its precondition is missing (no credential; no
\* identity for view_profile; no created identifier for read_own_article)
\* returns without an error, issues no request and leaves every session
\* field as it was.
C8_PreconditionMissIsNoOp ==
    [][\A u \in users :
        (/\ pc[u] = "idle"
         /\ pc'[u] \in {"wait", "inflight", "think"}
         /\ PreconditionMiss(u, cur'[u]))
        => /\ ~last'[u].requested
           /\ last'[u].step = cur'[u]
           /\ last'[u].marks = <<>>
           /\ pc'[u] = "wait"
           /\ state'[u] = "Running"
           /\ session' = session]_vars

\* read_own_article was skipped by a user that holds a credential
C8_Witness ==
    \E u \in users :
        /\ arch[u] = "ContentCreator"
        /\ token[u] \in Tokens
        /\ created_slug[u] = Unset
        /\ last[u] = Skipped("read_own_article")
        /\ pc[u] = "wait"

\* C9 as claimed: once setup is over the credential is present exactly when
\* a registration or login response of setup had an accepted status and a
\* body with user.token, and it is then that token.
C9_TokenIffSetupYielded ==
    \A u \in users :
        (arch[u] \in {"AuthenticatedUser", "ContentCreator"} /\ SetupDone(u)) =>
        LET ys == {i \in DOMAIN setupLog[u] : Yields(setupLog[u][i])}
        IN  /\ (token[u] \notin {Unset, None}) <=> (ys # {})
            /\ ys # {} => \E i \in ys : token[u] = setupLog[u][i].btoken

\* C10: after the stop signal a user that is pausing (between tasks or in
\* the sleep that ends a task) issues no further request; a user is never
\* stopped while its request is in flight, so the request completes and is
\* recorded first; a stopped user stays stopped and issues nothing.
C10_CooperativeStop ==
    [][\A u \in users :
        /\ (stopSignal /\ pc[u] \in {"idle", "wait", "think"})
              => (pc'[u] # "inflight" /\ last'[u] = last[u])
        /\ pc[u] = "inflight" => state'[u] # "Stopped"
        /\ state'[u] = "Stopped" => (last'[u].done /\ stopSignal')
        /\ state[u] = "Stopped"
              => (state'[u] = "Stopped" /\ last'[u] = last[u] /\ pc'[u] = pc[u])]_vars

\* a user stopped after the request that was in flight at the signal was
\* answered and classified
C10_Witness ==
    \E u \in users :
        /\ state[u] = "Stopped"
        /\ stopAt[u] = "inflight"
        /\ last[u].requested
        /\ last[u].done
        /\ last[u].marks # <<>>

\* user u was spawned and is Running
RunningAt(u) == IF u \in users THEN state[u] = "Running" ELSE FALSE
\* ... and is at the head of its loop, about to pick a task
AtHead(u) == IF u \in users THEN pc[u] = "idle" ELSE FALSE

OwnedBy(v) ==
    <<token[v], username[v], article_slug[v], created_slug[v], headers[v],
      login_username[v], seqIdx[v], state[v], pc[v], last[v]>>
\* user u takes a step
StepOf(u) == pc'[u] # pc[u] \/ last'[u] # last[u]

\* C12: with two users running side by side, in any interleaving, a step of
\* one user changes nothing that belongs to the other (credential, identity,
\* last-seen and created identifiers, its position), and the request it
\* builds carries its own credential and its own identifier.
C12_SessionIsolation ==
    [][\A u \in users : \A v \in users \ {u} :
        StepOf(u) =>
            /\ OwnedBy(v)' = OwnedBy(v)
            /\ (last'[u].requested /\ ~last'[u].done) =>
                /\ last'[u].auth \in {NoAuthorization, <<"Token", token[u]>>,
                                      <<"Token", headers[u]>>}
                /\ last'[u].step = "read_article"
                      => last'[u].path[3] = Str(getattr(article_slug[u], Fallback))
                /\ last'[u].step = "read_own_article"
                      => last'[u].path[3] = created_slug[u]]_vars

\* both users have had a list answered, and each holds its own identifier:
\* the anonymous one none, the other "abc"
C12_Witness ==
    \E u \in users : \E v \in users \ {u} :
        /\ token[u] \in Tokens
        /\ article_slug[u] = "abc"
        /\ last[u].requested
        /\ arch[v] = "AnonymousUser"
        /\ article_slug[v] = None
        /\ last[v].step = "read_article"
        /\ last[v].done
        /\ last[v].requested

\* how many requests of setup went to step
SetupCount(u, step) ==
    Cardinality({i \in DOMAIN setupLog[u] : setupLog[u][i].step = step})
    + (IF last[u].step = step /\ ~last[u].done THEN 1 ELSE 0)

\* C13: setup runs once per user and before the first task: a user that has
\* executed a task has finished its setup, setup made at most one
\* registration and one login request, and once setup is over no step makes
\* a registration or login request again, whether setup yielded a
\* credential or not.
C13_SetupOnceBeforeLoop ==
    /\ [](\A u \in users :
            arch[u] \in {"AuthenticatedUser", "ContentCreator", "ConduitUser"} =>
                /\ SetupCount(u, "register") <= 1
                /\ SetupCount(u, "login") <= 1
                /\ state[u] = "Running" =>
                     (SetupDone(u) /\ SetupCount(u, "register") + SetupCount(u, "login") >= 1)
                /\ last[u].step \in TaskSteps \cup {"list_articles"} => SetupDone(u))
    /\ [][\A u \in users :
            (arch[u] \in {"AuthenticatedUser", "ContentCreator", "ConduitUser"}
             /\ SetupDone(u))
            => /\ SetupDone(u)'
               /\ setupLog'[u] = setupLog[u]
               /\ last'[u].step \notin SetupSteps \/ last'[u] = last[u]]_vars

\* a reader whose registration and login both failed runs its loop and
\* skips its tasks
C13_Witness ==
    \E u \in users :
        /\ arch[u] = "AuthenticatedUser"
        /\ state[u] = "Running"
        /\ Len(setupLog[u]) = 2
        /\ SetupFailed(u)
        /\ last[u] = Skipped("view_feed")

\* the task table of a class that composes its steps by weight
TasksOf(A) ==
    CASE A = "AnonymousUser" -> AnonymousTasks
      [] A = "AuthenticatedUser" -> AuthenticatedTasks
      [] OTHER -> SimpleTasks
WeightedUsers == {"AnonymousUser", "AuthenticatedUser", "SimpleLoadTest"}

\* every task of u's class can be the next one scheduled
AnySelectable(u) ==
    CASE arch[u] = "AnonymousUser" ->
            /\ ENABLED AnonymousReaderBehavior_view_tags(u)
            /\ ENABLED AnonymousReaderBehavior_browse_articles(u)
            /\ ENABLED AnonymousReaderBehavior_read_article(u)
      [] arch[u] = "AuthenticatedUser" ->
            /\ ENABLED AuthenticatedReaderBehavior_view_feed(u)
            /\ ENABLED AuthenticatedReaderBehavior_read_article(u)
            /\ ENABLED AuthenticatedReaderBehavior_browse_all_articles(u)
            /\ ENABLED AuthenticatedReaderBehavior_view_profile(u)
      [] OTHER ->
            /\ ENABLED SimpleLoadTest_get_tags(u)
            /\ ENABLED SimpleLoadTest_get_articles(u)
            /\ ENABLED SimpleLoadTest_get_article_detail(u)
            /\ ENABLED SimpleLoadTest_register_user(u)

\* C14: under weighted composition a loop iteration executes exactly one
\* step: leaving the head of the loop starts one step of the class, nothing
\* else starts until the wait is over, and at every head of the loop each
\* step with positive weight can be the one selected, whatever ran before.
C14_OneStepAnySelectable ==
    /\ [](\A u \in users :
            (arch[u] \in WeightedUsers /\ state[u] = "Running"
             /\ pc[u] = "idle" /\ ~stopSignal)
            => /\ AnySelectable(u)
               /\ \A t \in DOMAIN TasksOf(arch[u]) : TasksOf(arch[u])[t] > 0)
    /\ [][\A u \in users :
            (arch[u] \in WeightedUsers /\ state[u] = "Running"
             /\ state'[u] = "Running") =>
                /\ (pc[u] = "idle" /\ pc'[u] # "idle") =>
                      /\ pc'[u] \in {"inflight", "wait"}
                      /\ cur'[u] \in DOMAIN TasksOf(arch[u])
                      /\ last'[u].step = cur'[u]
                      /\ last'[u].requested = (pc'[u] = "inflight")
                /\ pc[u] = "inflight" =>
                      /\ pc'[u] \in {"inflight", "wait"}
                      /\ cur'[u] = cur[u]
                      /\ last'[u].step = last[u].step
                /\ pc[u] = "wait" =>
                      /\ pc'[u] \in {"wait", "idle"}
                      /\ last'[u] = last[u]]_vars

\* a reader is back at the head of its loop right after the step it ran
\* last, and that step is selectable again
C14_Witness ==
    \E u \in users :
        /\ arch[u] = "AuthenticatedUser"
        /\ state[u] = "Running"
        /\ pc[u] = "idle"
        /\ ~stopSignal
        /\ cur[u] = "view_profile"
        /\ last[u].done
        /\ ENABLED AuthenticatedReaderBehavior_view_profile(u)

\* the credentials the setup of u took from a response: the locustfile
\* classes read the body of a response with an accepted status only,
\* ConduitUser.on_start reads it whatever the status
Obtained(u) ==
    {setupLog[u][i].btoken :
        i \in {j \in DOMAIN setupLog[u] :
                  IF arch[u] = "ConduitUser"
                  THEN setupLog[u][j].btoken # Unset
                  ELSE Yields(setupLog[u][j])}}

\* C15: every request of a step that depends on the credential carries the
\* header Authorization: Token <t>, where t is a token that setup obtained
\* and the one the user holds; no such request goes out without the header
\* or with an absent or null token.
C15_TokenHeaderOnAuthSteps ==
    \A u \in users :
        (arch[u] \in {"AuthenticatedUser", "ContentCreator", "ConduitUser"}
         /\ last[u].requested /\ last[u].step \notin SetupSteps)
        => /\ Len(last[u].auth) = 2
           /\ last[u].auth[1] = "Token"
           /\ last[u].auth[2] \in Tokens \cap Obtained(u)
           /\ last[u].auth[2] =
                 IF arch[u] = "ConduitUser" THEN headers[u] ELSE token[u]

\* a reader whose registration failed and whose login succeeded requests its
\* feed with the token of the login response
C15_Witness ==
    \E u \in users :
        /\ arch[u] = "AuthenticatedUser"
        /\ Len(setupLog[u]) = 2
        /\ ~Yields(setupLog[u][1])
        /\ setupLog[u][2].btoken = "def456"
        /\ last[u].step = "view_feed"
        /\ last[u].requested
        /\ last[u].auth = <<"Token", "def456">>

\* C16: of N users launched under the weights 3, 5 and 2, every class is
\* assigned at least floor(N*w/10) users, and when the assignment is over
\* the three counts add up to N.
C16_PopulationMix ==
    /\ mix \in {"rest", "done"} =>
          /\ assigned.AnonymousUser >= (total * 3) \div 10
          /\ assigned.AuthenticatedUser >= (total * 5) \div 10
          /\ assigned.ContentCreator >= (total * 2) \div 10
          /\ Assigned <= total
    /\ mix = "done" => Assigned = total

\* seven users: the shares are 2, 3 and 1, and the user left over became a
\* content creator
C16_Witness ==
    /\ total = 7
    /\ mix = "done"
    /\ assigned = [AnonymousUser |-> 2, AuthenticatedUser |-> 3, ContentCreator |-> 2]

\* C18 as claimed: read-own-item only ever requests an identifier that a
\* successful create-item of the same pass returned; when create-item of the
\* pass failed or was skipped, no identifier of an earlier pass is requested.
C18_ReadOwnTargetsThisPass ==
    \A u \in users :
        (arch[u] = "ContentCreator" /\ last[u].step = "read_own_article"
         /\ last[u].requested)
        => \E x \in Slugs :
              /\ CreatedInPass(u, x)
              /\ last[u].path = <<"api", "articles", x>>

ListSteps == {"browse_articles", "view_feed", "browse_feed", "browse_all_articles"}

\* C19 as claimed, for the steps of the loop: a response that is not
\* classified success leaves every session field as it was, and a successful
\* list or feed response changes the last-seen identifier only to an
\* identifier of one of its items: a body without items, or a chosen item
\* without identifier, leaves it as it was and never stores a null.
C19_SessionChangesOnlyOnSuccess ==
    [][\A u \in users :
          (Responds(u) /\ pc[u] = "inflight") =>
              /\ last'[u].marks # <<"success">> => SessionOf(u)' = SessionOf(u)
              /\ (last'[u].step \in ListSteps /\ last'[u].marks = <<"success">>) =>
                    /\ article_slug'[u] # article_slug[u] =>
                          (last'[u].body = "articles" /\ article_slug'[u] \in Slugs)
                    /\ token'[u] = token[u]
                    /\ created_slug'[u] = created_slug[u]]_vars

\* C20 as claimed: in the setup of the authenticated reader the login
\* request is issued exactly when the registration response yielded no
\* token, after the registration request and with its email; setup issues at
\* most two requests; once setup is over no step modifies the token.
C20_LoginIffRegistrationFailed ==
    /\ [](\A u \in users : arch[u] = "AuthenticatedUser" =>
            /\ SetupCount(u, "register") + SetupCount(u, "login") <= 2
            /\ setupLog[u] # <<>> =>
                  /\ setupLog[u][1].step = "register"
                  /\ (SetupCount(u, "login") = 1) <=> ~Yields(setupLog[u][1])
            /\ SetupCount(u, "login") = 1 =>
                  /\ setupLog[u] # <<>>
                  /\ \A i \in DOMAIN setupLog[u] :
                        setupLog[u][i].email = setupLog[u][1].email
                  /\ last[u].step = "login" => last[u].email = setupLog[u][1].email)
    /\ [][\A u \in users :
            (arch[u] = "AuthenticatedUser" /\ SetupDone(u)) => token'[u] = token[u]]_vars
====
